---------------------------- MODULE Spec2Model ----------------------------
(***************************************************************************)
(* A model of train/train_DPO.py: the command line handling, the           *)
(* preference-pair formatter, the train/test split, the sample logging     *)
(* and the sequence of trainer calls of main().                            *)
(*                                                                         *)
(* Python values that may be either a str or the float NaN (a DataFrame    *)
(* cell) are records [type, val]; str(x) of such a value is its val.       *)
(* Python's None for a string-valued attribute is the string "None".       *)
(***************************************************************************)
EXTENDS Integers, Sequences, FiniteSets, TLC

\* ------------------------------------------------------------------ bounds
MaxArgs == 3
MaxRows == 4
MaxSplitRows == 21
MaxRuns == 2

\* ------------------------------------------------------- Python values
Str(s) == [type |-> "str", val |-> s]
NaN == [type |-> "float", val |-> "nan"]
\* str(x), as an f-string applies it: a str is itself, float('nan') is "nan"
Format(x) == x.val

\* ------------------------------------------------------- command line
\* A command-line token: a positional word (dash = FALSE, name = the word) or an
\* option --<name> (dash = TRUE), with the value attached by "=" when there is one.
Word(w) == [dash |-> FALSE, name |-> w, attached |-> ""]
Opt(n) == [dash |-> TRUE, name |-> n, attached |-> ""]
OptEq(n, v) == [dash |-> TRUE, name |-> n, attached |-> v]

\* argparse (allow_abbrev is left at its default, True): an option string selects
\* --data_path when it is that string or an unambiguous prefix of it; the parser
\* knows only --data_path and -h/--help, so every prefix longer than "--" that
\* is not a prefix of --help is unambiguous.
DataPathPrefixes ==
    {"d", "da", "dat", "data", "data_", "data_p", "data_pa", "data_pat", "data_path"}
HelpNames == {"h", "help", "hel", "he"}
IsDataPathOpt(t) == t.dash /\ t.name \in DataPathPrefixes
IsHelpOpt(t) == t.dash /\ t.name \in HelpNames

NoPath == "<unset>"
ParseState(i, path, extras, exit) ==
    [i |-> i, path |-> path, extras |-> extras, exit |-> exit]

\* One step of ArgumentParser.parse_known_args over args, from the state st.
RECURSIVE ParseFrom(_, _)
ParseFrom(args, st) ==
    IF st.exit # "none" \/ st.i > Len(args)
    THEN st
    ELSE LET t == args[st.i] IN
         IF IsHelpOpt(t)
         THEN ParseState(st.i, st.path, st.extras, "help")
         ELSE IF IsDataPathOpt(t)
         THEN IF t.attached # ""
              THEN ParseFrom(args, ParseState(st.i + 1, t.attached, st.extras, "none"))
              ELSE IF st.i < Len(args) /\ ~args[st.i + 1].dash
                   THEN ParseFrom(args, ParseState(st.i + 2, args[st.i + 1].name,
                                                   st.extras, "none"))
                   ELSE ParseState(st.i, st.path, st.extras, "error")
         ELSE ParseFrom(args, ParseState(st.i + 1, st.path, Append(st.extras, t), "none"))

\* extra_parser.parse_known_args(): the namespace's data_path and the remaining
\* argument strings, or the exit of the process (help, or a usage error: a
\* missing value, or the required --data_path not given).
ParseKnownArgs(args) ==
    LET st == ParseFrom(args, ParseState(1, NoPath, <<>>, "none")) IN
    IF st.exit = "none" /\ st.path = NoPath
    THEN ParseState(st.i, st.path, st.extras, "error")
    ELSE st

\* ------------------------------------------------------- the data file
Fields == {"question", "first_trial_reasoning", "reflection_chosen", "reflection_rejected"}

\* pd.read_json(data_path, lines=True): the columns are the keys that occur in
\* any record of the file; a record that lacks a column gets NaN in that cell.
\* The values of the records are text that read_json keeps as str (it is not
\* numeric or date-like text, which read_json's dtype inference would convert).
ReadJsonLines(file) ==
    LET columns == UNION {DOMAIN file[i] : i \in 1..Len(file)} IN
    [columns |-> columns,
     rows |-> [i \in 1..Len(file) |->
                 [c \in columns |-> IF c \in DOMAIN file[i] THEN Str(file[i][c]) ELSE NaN]]]

InstructionText ==
    "You are an advanced reasoning agent that can improve based on self-reflection. "
    \o "You will be given a previous reasoning trial in which you were given a question to answer. "
    \o "You were unsuccessful in answering the question. In a few sentences, Diagnose a possible reason for failure and devise a new, concise, high-level plan that aims to mitigate the same failure. Use complete sentences.\n\n"

build_user_prompt(row) ==
    InstructionText
    \o "Question: " \o Format(row["question"]) \o "\n"
    \o "Previous trial and your incorrect solution: " \o Format(row["first_trial_reasoning"])

\* FormatRow with the two reflections taken from each other's column
FormatRowSwapped(row) ==
    LET user_input == build_user_prompt(row) IN
    [prompt |-> Str(user_input),
     chosen |-> <<[content |-> Str(user_input), role |-> "user"],
                  [content |-> row["reflection_rejected"], role |-> "assistant"]>>,
     rejected |-> <<[content |-> Str(user_input), role |-> "user"],
                    [content |-> row["reflection_chosen"], role |-> "assistant"]>>]

\* The record appended to formatted_data for one row of df.
FormatRow(row) ==
    LET user_input == build_user_prompt(row) IN
    [prompt |-> Str(user_input),
     chosen |-> <<[content |-> Str(user_input), role |-> "user"],
                  [content |-> row["reflection_chosen"], role |-> "assistant"]>>,
     rejected |-> <<[content |-> Str(user_input), role |-> "user"],
                    [content |-> row["reflection_rejected"], role |-> "assistant"]>>]

\* row[<field>] raises KeyError when the frame has no such column; the loop
\* body runs only when the frame has a row.
RaisesKeyError(frame) == Len(frame.rows) > 0 /\ ~(Fields \subseteq frame.columns)

\* ------------------------------------------------------- the split
RandomState == 42
TestSizeNum == 1
TestSizeDen == 10
NumSamples == 3

\* numpy.random.RandomState(seed).permutation(n), tabulated for n = 0..23 from
\* MT19937 seeded with init_genrand(seed) and numpy's legacy shuffle
\* (for i = n-1 down to 1: swap x[i], x[rk_interval(i)]).
Permutations42 ==
    <<<<>>,
      <<0>>,
      <<1, 0>>,
      <<0, 1, 2>>,
      <<1, 3, 0, 2>>,
      <<1, 4, 2, 0, 3>>,
      <<0, 1, 5, 2, 4, 3>>,
      <<0, 1, 5, 2, 4, 3, 6>>,
      <<1, 5, 0, 7, 2, 4, 3, 6>>,
      <<7, 1, 5, 0, 8, 2, 4, 3, 6>>,
      <<8, 1, 5, 0, 7, 2, 9, 4, 3, 6>>,
      <<5, 0, 9, 10, 2, 1, 8, 4, 7, 3, 6>>,
      <<10, 9, 0, 8, 5, 2, 1, 11, 4, 7, 3, 6>>,
      <<11, 9, 0, 8, 5, 2, 1, 12, 4, 7, 10, 3, 6>>,
      <<9, 11, 0, 12, 5, 8, 2, 1, 13, 4, 7, 10, 3, 6>>,
      <<9, 11, 0, 13, 5, 8, 2, 1, 14, 4, 7, 10, 12, 3, 6>>,
      <<0, 1, 5, 14, 13, 11, 8, 9, 2, 15, 4, 7, 10, 12, 3, 6>>,
      <<0, 1, 5, 15, 11, 14, 8, 13, 2, 9, 16, 4, 7, 10, 12, 3, 6>>,
      <<0, 1, 8, 5, 3, 13, 16, 15, 11, 2, 9, 17, 4, 12, 7, 10, 14, 6>>,
      <<0, 5, 11, 1, 8, 16, 3, 13, 15, 17, 2, 9, 18, 4, 12, 7, 10, 14, 6>>,
      <<0, 17, 15, 1, 8, 5, 11, 3, 18, 16, 13, 2, 9, 19, 4, 12, 7, 10, 14, 6>>,
      <<0, 17, 15, 1, 8, 5, 11, 3, 18, 16, 13, 2, 9, 20, 4, 12, 7, 10, 14, 19, 6>>,
      <<0, 13, 8, 1, 15, 5, 20, 11, 3, 4, 17, 12, 18, 16, 2, 9, 21, 7, 10, 14, 19, 6>>,
      <<15, 9, 0, 8, 17, 12, 1, 13, 5, 2, 11, 20, 3, 4, 18, 16, 21, 22, 7, 10, 14, 19, 6>>>>
Permutations0 ==
    <<<<>>,
      <<0>>,
      <<1, 0>>,
      <<2, 1, 0>>,
      <<2, 3, 1, 0>>,
      <<2, 0, 1, 3, 4>>,
      <<5, 2, 1, 3, 0, 4>>,
      <<6, 2, 1, 3, 0, 5, 4>>,
      <<6, 2, 1, 7, 3, 0, 5, 4>>,
      <<7, 2, 1, 4, 8, 6, 3, 0, 5>>,
      <<2, 8, 4, 9, 1, 6, 7, 3, 0, 5>>,
      <<4, 9, 2, 10, 6, 1, 7, 8, 3, 0, 5>>,
      <<6, 11, 4, 10, 2, 8, 1, 7, 9, 3, 0, 5>>,
      <<6, 11, 4, 10, 2, 8, 1, 7, 9, 3, 0, 5, 12>>,
      <<8, 6, 4, 11, 2, 13, 9, 1, 7, 10, 3, 0, 5, 12>>,
      <<1, 6, 8, 9, 14, 4, 2, 13, 10, 7, 11, 3, 0, 5, 12>>,
      <<1, 6, 8, 9, 13, 4, 2, 14, 10, 7, 15, 11, 3, 0, 5, 12>>,
      <<1, 6, 8, 9, 13, 4, 2, 14, 10, 7, 16, 11, 3, 0, 5, 15, 12>>,
      <<1, 6, 8, 10, 14, 4, 2, 16, 17, 9, 7, 13, 11, 3, 0, 5, 15, 12>>,
      <<10, 1, 8, 18, 14, 16, 6, 4, 2, 5, 13, 9, 7, 17, 11, 3, 0, 15, 12>>,
      <<18, 1, 19, 8, 10, 17, 6, 13, 4, 2, 5, 14, 9, 7, 16, 11, 3, 0, 15, 12>>,
      <<8, 13, 20, 1, 11, 10, 14, 18, 6, 19, 4, 2, 5, 16, 9, 7, 17, 3, 0, 15, 12>>,
      <<20, 10, 14, 13, 1, 21, 11, 19, 8, 6, 16, 4, 2, 5, 17, 9, 7, 18, 3, 0, 15, 12>>,
      <<11, 10, 21, 14, 20, 1, 13, 22, 16, 8, 6, 17, 4, 2, 5, 18, 9, 7, 19, 3, 0, 15, 12>>>>

Permutation(seed, n) == IF seed = 42 THEN Permutations42[n + 1] ELSE Permutations0[n + 1]

\* NTest rounding down instead of up
NTestFloor(n) == (n * TestSizeNum) \div TestSizeDen

\* sklearn _validate_shuffle_split: n_test = ceil(test_size * n_samples). The
\* product 0.1 * n in binary64 is exact-rounded to n/10 when 10 divides n and is
\* at least 0.1 away from an integer otherwise, so the ceiling is that of n/10.
NTest(n) == (n * TestSizeNum + TestSizeDen - 1) \div TestSizeDen
NTrain(n) == n - NTest(n)
\* "the resulting train set will be empty": ValueError
SplitRaises(n) == NTrain(n) = 0

\* SplitSeed when the split is left to the global generator
SplitSeedGlobal(global_seed) == global_seed

\* The generator ShuffleSplit draws the permutation from: a RandomState of its
\* own seeded with random_state, whatever the global generators hold.
SplitSeed(global_seed) == RandomState

\* TrainIndices starting one element early
TrainIndicesOverlap(n, seed) == SubSeq(Permutation(seed, n), NTest(n), NTest(n) + NTrain(n))

\* ShuffleSplit._iter_indices: the test indices are the first n_test of the
\* permutation, the train indices the n_train after them.
TestIndices(n, seed) == SubSeq(Permutation(seed, n), 1, NTest(n))
TrainIndices(n, seed) == SubSeq(Permutation(seed, n), NTest(n) + 1, NTest(n) + NTrain(n))

\* datasets.Dataset.from_pandas of the rows of df_formatted with the index
\* labels idx (0-based), in that order; the index is kept as a column.
FromPandas(formatted, idx) ==
    [k \in 1..Len(idx) |->
        [index_level_0 |-> idx[k],
         prompt |-> formatted[idx[k] + 1].prompt,
         chosen |-> formatted[idx[k] + 1].chosen,
         rejected |-> formatted[idx[k] + 1].rejected]]

\* random.sample(range(m), 3): ValueError when the sample is larger than the population
SampleRaises(m) == m < NumSamples
\* SampleSets when the indices are drawn with replacement
SampleSetsWithReplacement(m) ==
    {{a, b, c} : a \in 0..(m - 1), b \in 0..(m - 1), c \in 0..(m - 1)}

\* the index sets random.sample(range(m), 3) can return
SampleSets(m) ==
    {S \in {{a, b, c} : a \in 0..(m - 1), b \in 0..(m - 1), c \in 0..(m - 1)} :
        Cardinality(S) = NumSamples}

\* ------------------------------------------------------- configuration
NoArgs == [none |-> TRUE]
NoneKwargs == [none |-> TRUE]

\* "gemma" in model_args.model_name_or_path
ContainsGemma(name) == name \in {"google/gemma-2b"}

TorchDtype(model_args) ==
    IF model_args.torch_dtype \in {"auto", "None"}
    THEN model_args.torch_dtype
    ELSE "torch." \o model_args.torch_dtype

\* get_quantization_config(model_args)
QuantizationConfig(model_args) ==
    IF model_args.load_in_4bit THEN "BitsAndBytesConfig(4bit)" ELSE "None"

ModelKwargs(model_args, training_args) ==
    [revision |-> model_args.model_revision,
     trust_remote_code |-> model_args.trust_remote_code,
     torch_dtype |-> TorchDtype(model_args),
     use_cache |-> IF training_args.gradient_checkpointing THEN FALSE ELSE TRUE,
     quantization_config |-> QuantizationConfig(model_args),
     attn_implementation |-> IF ContainsGemma(model_args.model_name_or_path)
                             THEN "eager" ELSE "flash_attention_2"]

\* RefModelKwargs when the PEFT branch leaves the kwargs in place
RefModelKwargsKept(model_args, model_kwargs) == model_kwargs

RefModel(model_args, model) == IF model_args.use_peft = TRUE THEN "None" ELSE model
RefModelKwargs(model_args, model_kwargs) ==
    IF model_args.use_peft = TRUE THEN NoneKwargs ELSE model_kwargs

\* Checkpoint with the detected checkpoint taking precedence
CheckpointLastFirst(training_args, last) ==
    IF last # "None" THEN last ELSE training_args.resume_from_checkpoint

\* the checkpoint handed to trainer.train
Checkpoint(training_args, last) ==
    IF training_args.resume_from_checkpoint # "None"
    THEN training_args.resume_from_checkpoint
    ELSE IF last # "None" THEN last ELSE "None"

\* EvalEnabled when the evaluation is not guarded
EvalAlways(training_args) == TRUE

EvalEnabled(training_args) == training_args.do_eval
PushEnabled(training_args) == training_args.push_to_hub = TRUE

\* ------------------------------------------------------- state
VARIABLES
    argv,            \* the command line the process was started with (sys.argv[1:])
    disk,            \* the records of the JSON-Lines file at --data_path
    sys_argv,        \* sys.argv[1:]
    data_path,       \* extra_args.data_path
    model_args, training_args,
    last_checkpoint,
    global_seed,     \* what set_seed seeded random, numpy and torch with
    df,              \* the frame read from the file
    formatted_data,
    raw_datasets,    \* [train, test]
    logged,          \* the indices of the logged training samples
    trainer,         \* the arguments DPOTrainer was built with
    checkpoint,
    calls,           \* the trainer methods called so far, in order
    pc, error,
    runs, prev       \* the runs of the script so far and the previous run's split

vars == <<argv, disk, sys_argv, data_path, model_args, training_args, last_checkpoint,
          global_seed, df, formatted_data, raw_datasets, logged, trainer, checkpoint,
          calls, pc, error, runs, prev>>

env == <<argv, disk, runs, prev>>

NoFrame == [columns |-> {}, rows |-> <<>>]
NoDatasets == [train |-> <<>>, test |-> <<>>]
NoTrainer == [built |-> FALSE]
NoPrev == [split |-> FALSE]
Unseeded == -1

\* The state of a process of the script before main() runs.
Fresh ==
    /\ data_path = NoPath
    /\ model_args = NoArgs
    /\ training_args = NoArgs
    /\ last_checkpoint = "None"
    /\ global_seed = Unseeded
    /\ df = NoFrame
    /\ formatted_data = <<>>
    /\ raw_datasets = NoDatasets
    /\ logged = {}
    /\ trainer = NoTrainer
    /\ checkpoint = "None"
    /\ calls = <<>>
    /\ pc = "start"
    /\ error = "none"

Raise(name) == pc' = "aborted" /\ error' = name

\* lines 62-65
ParseArgs ==
    /\ pc = "start"
    /\ LET r == ParseKnownArgs(sys_argv) IN
       IF r.exit # "none"
       THEN /\ pc' = "exited"
            /\ error' = "SystemExit"
            /\ UNCHANGED <<sys_argv, data_path>>
       ELSE /\ pc' = "h4parse"
            /\ data_path' = r.path
            /\ sys_argv' = r.extras
            /\ error' = "none"
    /\ UNCHANGED <<env, model_args, training_args, last_checkpoint, global_seed, df,
                   formatted_data, raw_datasets, logged, trainer, checkpoint, calls>>

\* lines 66-67: what H4ArgumentParser makes of sys.argv is its own; MA and TA
\* are the configurations it may return.
H4Parse(MA, TA) ==
    /\ pc = "h4parse"
    /\ \E ma \in MA, ta \in TA, ok \in BOOLEAN :
         IF ok
         THEN /\ model_args' = ma
              /\ training_args' = ta
              /\ pc' = "setup"
              /\ error' = "none"
         ELSE /\ Raise("ArgumentError")
              /\ UNCHANGED <<model_args, training_args>>
    /\ UNCHANGED <<env, sys_argv, data_path, last_checkpoint, global_seed, df,
                   formatted_data, raw_datasets, logged, trainer, checkpoint, calls>>

\* lines 72-94: logging, get_checkpoint, set_seed
Setup ==
    /\ pc = "setup"
    /\ \E last \in {"None", "out/checkpoint-500"} : last_checkpoint' = last
    /\ global_seed' = training_args.seed
    /\ pc' = "load"
    /\ UNCHANGED <<env, sys_argv, data_path, model_args, training_args, df, formatted_data,
                   raw_datasets, logged, trainer, checkpoint, calls, error>>

\* lines 100-101
ReadJson ==
    /\ pc = "load"
    /\ \E ok \in BOOLEAN :
         IF ok
         THEN /\ df' = ReadJsonLines(disk)
              /\ pc' = "format"
              /\ error' = "none"
         ELSE /\ Raise("FileNotFoundError")
              /\ UNCHANGED df
    /\ UNCHANGED <<env, sys_argv, data_path, model_args, training_args, last_checkpoint,
                   global_seed, formatted_data, raw_datasets, logged, trainer, checkpoint,
                   calls>>

\* lines 103-117
FormatData ==
    /\ pc = "format"
    /\ IF RaisesKeyError(df)
       THEN /\ Raise("KeyError")
            /\ UNCHANGED formatted_data
       ELSE /\ formatted_data' = [i \in 1..Len(df.rows) |-> FormatRow(df.rows[i])]
            /\ pc' = "split"
            /\ error' = "none"
    /\ UNCHANGED <<env, sys_argv, data_path, model_args, training_args, last_checkpoint,
                   global_seed, df, raw_datasets, logged, trainer, checkpoint, calls>>

\* lines 119-126
TrainTestSplit ==
    /\ pc = "split"
    /\ LET n == Len(formatted_data)
           seed == SplitSeed(global_seed) IN
       IF SplitRaises(n)
       THEN /\ Raise("ValueError")
            /\ UNCHANGED raw_datasets
       ELSE /\ raw_datasets' =
                  [train |-> FromPandas(formatted_data, TrainIndices(n, seed)),
                   test |-> FromPandas(formatted_data, TestIndices(n, seed))]
            /\ pc' = "template"
            /\ error' = "none"
    /\ UNCHANGED <<env, sys_argv, data_path, model_args, training_args, last_checkpoint,
                   global_seed, df, formatted_data, logged, trainer, checkpoint, calls>>

\* lines 136-159: the tokenizer is loaded and apply_chat_template is mapped over
\* both splits; the map keeps every row and its order (the texts it renders are
\* the tokenizer's and are not modelled).
ApplyChatTemplate ==
    /\ pc = "template"
    /\ \E ok \in BOOLEAN :
         IF ok THEN pc' = "sample" /\ error' = "none" ELSE Raise("TokenizerError")
    /\ UNCHANGED <<env, sys_argv, data_path, model_args, training_args, last_checkpoint,
                   global_seed, df, formatted_data, raw_datasets, logged, trainer,
                   checkpoint, calls>>

\* lines 186-190
LogSamples ==
    /\ pc = "sample"
    /\ LET m == Len(raw_datasets.train) IN
       IF SampleRaises(m)
       THEN /\ Raise("ValueError")
            /\ UNCHANGED logged
       ELSE /\ \E S \in SampleSets(m) : logged' = S
            /\ pc' = "build"
            /\ error' = "none"
    /\ UNCHANGED <<env, sys_argv, data_path, model_args, training_args, last_checkpoint,
                   global_seed, df, formatted_data, raw_datasets, trainer, checkpoint,
                   calls>>

\* lines 198-262
BuildTrainer ==
    /\ pc = "build"
    /\ \E ok \in BOOLEAN :
         IF ok
         THEN LET model_kwargs == ModelKwargs(model_args, training_args)
                  model == model_args.model_name_or_path IN
              /\ trainer' = [built |-> TRUE,
                             model |-> model,
                             ref_model |-> RefModel(model_args, model),
                             model_init_kwargs |-> model_kwargs,
                             ref_model_init_kwargs |-> RefModelKwargs(model_args, model_kwargs),
                             train_dataset |-> raw_datasets.train,
                             eval_dataset |-> raw_datasets.test]
              /\ pc' = "train"
              /\ error' = "none"
         ELSE /\ Raise("ModelLoadError")
              /\ UNCHANGED trainer
    /\ UNCHANGED <<env, sys_argv, data_path, model_args, training_args, last_checkpoint,
                   global_seed, df, formatted_data, raw_datasets, logged, checkpoint, calls>>

\* A trainer method is called: it returns and main goes on at next, or it
\* raises and the exception ends the process.
TrainerCall(names, next) ==
    \E ok \in BOOLEAN :
        /\ calls' = calls \o names
        /\ IF ok THEN pc' = next /\ error' = "none" ELSE Raise("TrainerError")

\* lines 267-275
Train ==
    /\ pc = "train"
    /\ checkpoint' = Checkpoint(training_args, last_checkpoint)
    /\ TrainerCall(<<"train">>, "save_metrics")
    /\ UNCHANGED <<env, sys_argv, data_path, model_args, training_args, last_checkpoint,
                   global_seed, df, formatted_data, raw_datasets, logged, trainer>>

\* line 276
SaveMetrics ==
    /\ pc = "save_metrics"
    /\ TrainerCall(<<"save_metrics:train">>, "save_state")
    /\ UNCHANGED <<env, sys_argv, data_path, model_args, training_args, last_checkpoint,
                   global_seed, df, formatted_data, raw_datasets, logged, trainer,
                   checkpoint>>

\* line 277
SaveState ==
    /\ pc = "save_state"
    /\ TrainerCall(<<"save_state">>, "save_model")
    /\ UNCHANGED <<env, sys_argv, data_path, model_args, training_args, last_checkpoint,
                   global_seed, df, formatted_data, raw_datasets, logged, trainer,
                   checkpoint>>

\* line 285
SaveModel ==
    /\ pc = "save_model"
    /\ TrainerCall(<<"save_model">>, "model_card")
    /\ UNCHANGED <<env, sys_argv, data_path, model_args, training_args, last_checkpoint,
                   global_seed, df, formatted_data, raw_datasets, logged, trainer,
                   checkpoint>>

\* lines 289-299
ModelCard ==
    /\ pc = "model_card"
    /\ \E is_main_process \in BOOLEAN :
         IF is_main_process
         THEN TrainerCall(<<"create_model_card">>, "evaluate")
         ELSE /\ pc' = "evaluate"
              /\ UNCHANGED <<calls, error>>
    /\ UNCHANGED <<env, sys_argv, data_path, model_args, training_args, last_checkpoint,
                   global_seed, df, formatted_data, raw_datasets, logged, trainer,
                   checkpoint>>

\* lines 304-309
Evaluate ==
    /\ pc = "evaluate"
    /\ IF EvalEnabled(training_args)
       THEN \/ TrainerCall(<<"evaluate">>, "aborted")
            \/ TrainerCall(<<"evaluate", "save_metrics:eval">>, "push")
       ELSE /\ pc' = "push"
            /\ UNCHANGED <<calls, error>>
    /\ UNCHANGED <<env, sys_argv, data_path, model_args, training_args, last_checkpoint,
                   global_seed, df, formatted_data, raw_datasets, logged, trainer,
                   checkpoint>>

\* lines 311-315
PushToHub ==
    /\ pc = "push"
    /\ IF PushEnabled(training_args)
       THEN TrainerCall(<<"push_to_hub">>, "done")
       ELSE /\ pc' = "done"
            /\ UNCHANGED <<calls, error>>
    /\ UNCHANGED <<env, sys_argv, data_path, model_args, training_args, last_checkpoint,
                   global_seed, df, formatted_data, raw_datasets, logged, trainer,
                   checkpoint>>

Main(MA, TA) ==
    \/ ParseArgs
    \/ H4Parse(MA, TA)
    \/ Setup
    \/ ReadJson
    \/ FormatData
    \/ TrainTestSplit
    \/ ApplyChatTemplate
    \/ LogSamples
    \/ BuildTrainer
    \/ Train
    \/ SaveMetrics
    \/ SaveState
    \/ SaveModel
    \/ ModelCard
    \/ Evaluate
    \/ PushToHub

\* ------------------------------------------------------- inputs
Rec1 == [question |-> "Q1", first_trial_reasoning |-> "T1",
         reflection_chosen |-> "C1", reflection_rejected |-> "R1"]
Rec2 == [question |-> "Q2", first_trial_reasoning |-> "T2",
         reflection_chosen |-> "C2", reflection_rejected |-> "R2"]
Without(rec, f) == [g \in (DOMAIN rec) \ {f} |-> rec[g]]
RecordShapes == {Rec1, Rec2} \cup {Without(Rec1, f) : f \in Fields}

RECURSIVE SeqsUpTo(_, _)
SeqsUpTo(S, n) ==
    IF n = 0 THEN {<<>>}
    ELSE LET shorter == SeqsUpTo(S, n - 1) IN
         shorter \cup {Append(s, x) : s \in {q \in shorter : Len(q) = n - 1}, x \in S}

Tokens == {Opt("data_path"), Opt("data"), OptEq("data_path", "g.jsonl"),
           Word("f.jsonl"), Opt("lr"), Opt("help")}

ModelArgsAll ==
    [use_peft : BOOLEAN,
     model_name_or_path : {"google/gemma-2b", "meta-llama/Llama-3-8B"},
     model_revision : {"main"},
     trust_remote_code : {FALSE},
     torch_dtype : {"auto", "bfloat16"},
     load_in_4bit : BOOLEAN]
TrainArgsAll ==
    [seed : {42, 0},
     resume_from_checkpoint : {"None", "out/checkpoint-100"},
     do_eval : BOOLEAN,
     push_to_hub : BOOLEAN,
     gradient_checkpointing : BOOLEAN]
ModelArgsOne == {ma \in ModelArgsAll : ~ma.use_peft /\ ma.torch_dtype = "bfloat16"
                                       /\ ma.model_name_or_path = "google/gemma-2b"
                                       /\ ~ma.load_in_4bit}
TrainArgsOne == {ta \in TrainArgsAll : ta.seed = 42 /\ ta.resume_from_checkpoint = "None"
                                       /\ ta.do_eval /\ ta.push_to_hub
                                       /\ ta.gradient_checkpointing}
TrainArgsSeeds == {ta \in TrainArgsAll : ta.resume_from_checkpoint = "None"
                                         /\ ta.do_eval /\ ta.push_to_hub
                                         /\ ta.gradient_checkpointing}

UsualArgv == <<Word("recipe.yaml"), Opt("data_path"), Word("f.jsonl")>>
Uniform(n) == [i \in 1..n |-> IF i % 2 = 1 THEN Rec1 ELSE Rec2]

InitWith(argvs, files) ==
    /\ argv \in argvs
    /\ disk \in files
    /\ sys_argv = argv
    /\ runs = 1
    /\ prev = NoPrev
    /\ Fresh

\* The whole run under every configuration, on a few files.
Init == InitWith({UsualArgv, <<Opt("lr")>>},
                 {Uniform(n) : n \in 0..MaxRows}
                     \cup {<<Without(Rec1, "question"), Without(Rec1, "question")>>})
Next == Main(ModelArgsAll, TrainArgsAll)
Spec == Init /\ [][Next]_vars

\* The data path of the run on every file of at most MaxRows records.
InitData == InitWith({UsualArgv}, SeqsUpTo(RecordShapes, MaxRows))
NextData == Main(ModelArgsOne, TrainArgsOne)
SpecData == InitData /\ [][NextData]_vars

\* The split on well-formed files of up to MaxSplitRows records.
InitSplit == InitWith({UsualArgv}, {Uniform(n) : n \in 0..MaxSplitRows})
NextSplit == Main(ModelArgsOne, TrainArgsOne)
SpecSplit == InitSplit /\ [][NextSplit]_vars

\* The run on every command line of at most MaxArgs tokens.
InitCLI == InitWith(SeqsUpTo(Tokens, MaxArgs), {Uniform(MaxRows)})
NextCLI == Main(ModelArgsOne, TrainArgsOne)
SpecCLI == InitCLI /\ [][NextCLI]_vars

\* The script run again on the same file and command line.
Rerun ==
    /\ pc \in {"done", "aborted", "exited"}
    /\ runs < MaxRuns
    /\ runs' = runs + 1
    /\ prev' = IF raw_datasets # NoDatasets
               THEN [split |-> TRUE, seed |-> global_seed, datasets |-> raw_datasets]
               ELSE NoPrev
    /\ sys_argv' = argv
    /\ data_path' = NoPath
    /\ model_args' = NoArgs
    /\ training_args' = NoArgs
    /\ last_checkpoint' = "None"
    /\ global_seed' = Unseeded
    /\ df' = NoFrame
    /\ formatted_data' = <<>>
    /\ raw_datasets' = NoDatasets
    /\ logged' = {}
    /\ trainer' = NoTrainer
    /\ checkpoint' = "None"
    /\ calls' = <<>>
    /\ pc' = "start"
    /\ error' = "none"
    /\ UNCHANGED <<argv, disk>>

InitRerun == InitWith({UsualArgv}, {Uniform(n) : n \in 0..(MaxRows + 2)})
NextRerun == Main(ModelArgsOne, TrainArgsSeeds) \/ Rerun
SpecRerun == InitRerun /\ [][NextRerun]_vars
\* ------------------------------------------------------- properties
FormatDone == pc \in {"split", "template", "sample", "build", "train", "save_metrics",
                      "save_state", "save_model", "model_card", "evaluate", "push", "done"}
SplitDone == raw_datasets # NoDatasets
Complete(rec) == DOMAIN rec = Fields
Indices(ds) == {ds[k].index_level_0 : k \in 1..Len(ds)}
Called(name) == \E k \in 1..Len(calls) : calls[k] = name
\* the least k with 10 * k >= n
CeilTenth(n) == CHOOSE k \in 0..n : 10 * k >= n /\ (k = 0 \/ 10 * (k - 1) < n)

\* C1: every record of the file with all four fields yields exactly one formatted
\* record, at its own position, whose prompt is the instruction text followed by
\* "Question: <question>" and "Previous trial and your incorrect solution:
\* <first_trial_reasoning>", whose chosen is [user turn with the prompt, assistant
\* turn with reflection_chosen] and whose rejected is [user turn with the prompt,
\* assistant turn with reflection_rejected]; the loop does not fail on such a file.
C1_FormatterOutput ==
    /\ (\E i \in 1..Len(disk) : Complete(disk[i])) => error # "KeyError"
    /\ FormatDone =>
         /\ Len(formatted_data) = Len(disk)
         /\ \A i \in 1..Len(disk) :
              Complete(disk[i]) =>
                LET expected ==
                      Str(InstructionText \o "Question: " \o disk[i].question \o "\n"
                          \o "Previous trial and your incorrect solution: "
                          \o disk[i].first_trial_reasoning) IN
                /\ formatted_data[i].prompt = expected
                /\ formatted_data[i].chosen =
                      <<[content |-> expected, role |-> "user"],
                        [content |-> Str(disk[i].reflection_chosen), role |-> "assistant"]>>
                /\ formatted_data[i].rejected =
                      <<[content |-> expected, role |-> "user"],
                        [content |-> Str(disk[i].reflection_rejected), role |-> "assistant"]>>

\* C1 witness: a file mixing a complete record and an incomplete one has been formatted.
C1_Witness ==
    /\ pc = "split"
    /\ Len(disk) >= 2
    /\ Complete(disk[1])
    /\ ~Complete(disk[2])
    /\ disk[1].reflection_chosen # disk[1].reflection_rejected

\* C2 (as claimed): a file with a record that lacks one of the four fields never
\* yields formatted records: the run fails before any is produced, whether the
\* field is missing from every record or only from some.
C2_MissingFieldFails ==
    (\E i \in 1..Len(disk) : ~Complete(disk[i])) => formatted_data = <<>> /\ ~trainer.built

\* C3: once the split is made, the train and test rows are the formatted rows,
\* each in exactly one of the two and none twice: the index labels of train and
\* of test are disjoint, together they are 0..n-1, and the lengths add up to the
\* number of input records.
C3_SplitPartitions ==
    SplitDone =>
        LET train == raw_datasets.train
            test == raw_datasets.test
            n == Len(disk) IN
        /\ Indices(train) \cap Indices(test) = {}
        /\ Indices(train) \cup Indices(test) = 0..(n - 1)
        /\ Cardinality(Indices(train)) = Len(train)
        /\ Cardinality(Indices(test)) = Len(test)
        /\ Len(train) + Len(test) = n
        /\ \A ds \in {train, test} : \A k \in 1..Len(ds) :
              /\ ds[k].prompt = formatted_data[ds[k].index_level_0 + 1].prompt
              /\ ds[k].chosen = formatted_data[ds[k].index_level_0 + 1].chosen
              /\ ds[k].rejected = formatted_data[ds[k].index_level_0 + 1].rejected

\* C3 witness: a split with more than one test row
C3_Witness == pc = "template" /\ Len(raw_datasets.test) >= 2 /\ Len(raw_datasets.train) >= 2

\* C4: a second run on the same file makes the same split as the first, whatever
\* seed either run's training_args carry.
C4_SplitReproducible ==
    (prev.split /\ SplitDone) => raw_datasets = prev.datasets

\* C4 witness: two runs with different training seeds have both split at least 3 rows
C4_Witness ==
    /\ prev.split
    /\ SplitDone
    /\ prev.seed # global_seed
    /\ Len(disk) >= 3

\* C5 (as claimed): for every non-empty input, once the split step is over the test
\* partition has ceil(n/10) rows and the train partition the other rows.
C5_SplitSizesNonEmpty ==
    (Len(formatted_data) >= 1 /\ pc # "split") =>
        /\ Len(raw_datasets.test) = CeilTenth(Len(formatted_data))
        /\ Len(raw_datasets.train) = Len(formatted_data) - CeilTenth(Len(formatted_data))

\* C5 (amended): for every input of n >= 2 records, once the split step is over the
\* test partition has ceil(n/10) rows and the train partition the other n -
\* ceil(n/10) >= 1 rows; for n = 1 (as for the empty file) the split raises
\* ValueError and no partition is made.
C5_SplitSizes ==
    LET n == Len(formatted_data) IN
    /\ (n >= 2 /\ pc # "split") =>
          /\ Len(raw_datasets.test) = CeilTenth(n)
          /\ Len(raw_datasets.train) = n - CeilTenth(n)
          /\ Len(raw_datasets.train) >= 1
    /\ (FormatDone /\ Len(disk) <= 1) => pc = "split"
    /\ (Len(disk) <= 1) => ~SplitDone

\* C5 witness: a split whose test partition has three rows
C5_Witness == pc = "template" /\ Len(raw_datasets.test) = 3

\* the command line without every --data_path and the value it is given
RECURSIVE WithoutDataPath(_)
WithoutDataPath(args) ==
    IF args = <<>> THEN <<>>
    ELSE IF args[1].dash /\ args[1].name = "data_path"
         THEN IF args[1].attached # "" \/ Len(args) = 1
              THEN WithoutDataPath(Tail(args))
              ELSE WithoutDataPath(Tail(Tail(args)))
         ELSE <<args[1]>> \o WithoutDataPath(Tail(args))
HasDataPath(args) == \E i \in 1..Len(args) : args[i].dash /\ args[i].name = "data_path"

\* C6 (as claimed): after the first parse sys.argv holds the original arguments
\* without --data_path and its value, in their order; a command line without
\* --data_path does not get past argument parsing.
C6_PassThrough ==
    /\ pc \notin {"start", "exited"} => sys_argv = WithoutDataPath(argv)
    /\ ~HasDataPath(argv) => pc \in {"start", "exited"}

CallOrder == <<"train", "save_metrics:train", "save_state", "save_model",
               "create_model_card", "evaluate", "save_metrics:eval", "push_to_hub">>
Rank(name) == CHOOSE r \in 1..Len(CallOrder) : CallOrder[r] = name
Required == {"train", "save_metrics:train", "save_state", "save_model"}

\* C7: the trainer calls are made in the order train, save_metrics('train'),
\* save_state, save_model, evaluate, push_to_hub, each at most once and none before
\* the required ones ahead of it; evaluate is called exactly when do_eval is set,
\* push_to_hub exactly when push_to_hub is True and as the last call; a run that
\* has ended (also by an exception) makes no further step.
C7_TrainerCallOrder ==
    /\ \A j, k \in 1..Len(calls) : j < k => Rank(calls[j]) < Rank(calls[k])
    /\ \A k \in 1..Len(calls) :
          \A name \in Required : Rank(name) < Rank(calls[k]) => Called(name)
    /\ Called("evaluate") => training_args.do_eval
    /\ Called("push_to_hub") =>
          training_args.push_to_hub /\ calls[Len(calls)] = "push_to_hub"
    /\ pc \in {"push", "done"} => (Called("evaluate") <=> training_args.do_eval)
    /\ pc = "done" =>
          /\ Called("push_to_hub") <=> training_args.push_to_hub
          /\ \A name \in Required : Called(name)
    /\ pc \in {"aborted", "exited", "done"} => ~ENABLED Next

\* C7 witness: a run that evaluated and pushed has finished
C7_Witness == pc = "done" /\ Called("evaluate") /\ Called("push_to_hub")

\* C8: trainer.train is given training_args.resume_from_checkpoint when that is
\* not None, else the detected last checkpoint when that is not None, else None.
C8_CheckpointPriority ==
    Called("train") =>
        /\ training_args.resume_from_checkpoint # "None" =>
              checkpoint = training_args.resume_from_checkpoint
        /\ (training_args.resume_from_checkpoint = "None" /\ last_checkpoint # "None") =>
              checkpoint = last_checkpoint
        /\ (training_args.resume_from_checkpoint = "None" /\ last_checkpoint = "None") =>
              checkpoint = "None"

\* C8 witness: train was called with both a requested and a detected checkpoint
C8_Witness ==
    /\ Called("train")
    /\ training_args.resume_from_checkpoint # "None"
    /\ last_checkpoint # "None"

\* C9: with use_peft the trainer gets no reference model and no init kwargs for
\* it; without, the reference model is the policy model's name and its init
\* kwargs are the policy model's (revision, dtype, quantization config, attention
\* implementation, and use_cache = not gradient_checkpointing).
C9_ReferenceModel ==
    trainer.built =>
        /\ model_args.use_peft =>
              trainer.ref_model = "None" /\ trainer.ref_model_init_kwargs = NoneKwargs
        /\ ~model_args.use_peft =>
              /\ trainer.ref_model = model_args.model_name_or_path
              /\ trainer.ref_model = trainer.model
              /\ trainer.ref_model_init_kwargs = trainer.model_init_kwargs
              /\ trainer.ref_model_init_kwargs.revision = model_args.model_revision
              /\ trainer.ref_model_init_kwargs.use_cache
                    = ~training_args.gradient_checkpointing
              /\ trainer.ref_model_init_kwargs.quantization_config
                    = (IF model_args.load_in_4bit THEN "BitsAndBytesConfig(4bit)" ELSE "None")

\* C9 witness: a trainer built with PEFT, and so without a reference model
C9_Witness == trainer.built /\ model_args.use_peft /\ training_args.gradient_checkpointing

\* C10: the logged samples are 3 distinct indices of the train partition; the
\* trainer is built, and anything trained, only when the train partition has at
\* least 3 rows, which no file of fewer than 4 records gives.
C10_SampleNeedsThreeRows ==
    /\ (pc \in {"build", "train"} \/ trainer.built \/ calls # <<>>) =>
          /\ Len(raw_datasets.train) >= 3
          /\ Len(disk) >= 4
          /\ Cardinality(logged) = 3
          /\ logged \subseteq 0..(Len(raw_datasets.train) - 1)
    /\ Len(disk) < 4 =>
          /\ ~trainer.built
          /\ calls = <<>>
          /\ pc \in {"start", "h4parse", "setup", "load", "format", "split", "template",
                     "sample", "aborted"}

\* C10 witness: a run on a 3-record file has stopped at the sampling step
C10_Witness ==
    /\ pc = "aborted"
    /\ error = "ValueError"
    /\ SplitDone
    /\ Len(disk) = 3
    /\ Len(raw_datasets.train) = 2
=============================================================================
